---- MODULE Spec2Model ----
(***************************************************************************)
(* teslajson.py: Connection (token life cycle, request dispatch) and the   *)
(* objects it talks to (clock, token file, OAuth endpoint, API endpoint).  *)
(*                                                                         *)
(* The program holds one Connection object at a time: constructing a new  *)
(* one replaces it.  A caller is one element of Threads; a call is a frame *)
(* that walks through the statements of Connection.post, and every         *)
(* blocking network round trip is a step.                                  *)
(*                                                                         *)
(* Python values: strings that the code only copies are TLA+ strings or    *)
(* tuples, '' is the empty tuple, dicts that are iterated (urlencode) are  *)
(* sequences of <<key, value>> pairs in insertion order, dicts that are    *)
(* only indexed are functions, a formatted string "%s%s" % (a, b) is the   *)
(* concatenation of its segments.                                          *)
(***************************************************************************)
EXTENDS Integers, Sequences, FiniteSets, TLC

\* ---------------------------------------------------------------- bounds
NumThreads == 2
MaxNow == 4
MaxIssued == 2

Threads == 1..NumThreads
\* the thread of a program that uses the client from one thread only
MainThread == {1}

\* ------------------------------------------------------- program constants
SafetyMargin == 86400
Inf == 2000000000
version == "1.7.1"
client_id == "e4a9949fcfa04068f59abb5a658f2bac0a3428e4652315490b659d5ab3f35a9e"
client_secret == "c75f14bbadc8bee3a7594412c31416f8300256d7668ea7e6e7f06727bfb9d220"
baseurl == "https://owner-api.teslamotors.com"
api == "/api/1/"
oauth_token_url == <<"/oauth/token">>

\* ----------------------------------------------------------- Python values
None == << <<"None">> >>
EmptyStr == << >>
EmptyDict == << >>
Unset == << <<"unset">> >>

\* truth value of a Python object in `if x:` (None, '' and {} are false)
Truthy(x) == x # None /\ x # EmptyStr

\* ------------------------------------------------------------ environment
\* access tokens: the one passed to the constructor, the one in the token
\* file, and the n-th one the OAuth endpoint hands out
StaticToken == <<"static", 0>>
FileToken == <<"file", 0>>
FileRefresh == <<"file_refresh", 0>>
SrvToken(n) == <<"srv", n>>
SrvRefresh(n) == <<"srv_refresh", n>>

TokensPath == <<"path", "tokens.json">>
Emails == {"youremail"}
Passwords == {"yourpassword"}
ExpiresIns == {3600, SafetyMargin + 1}
VehicleDict(n) == [id |-> n, vin |-> "X"]
VehicleLists == {<< >>, <<VehicleDict(42)>>, <<VehicleDict(42), VehicleDict(7)>>}
ApiResults == {[response |-> [result |-> TRUE, reason |-> ""]],
               [result |-> FALSE, reason |-> "could_not_wake_buses"]}

\* a token file as json.load sees it: absent, not JSON, a JSON object
\* without the token fields, or a token object written by an earlier run
TokenObj(a, r, c, e) ==
    [access_token |-> a, refresh_token |-> r, created_at |-> c, expires_in |-> e]
FileStates ==
    {[exists |-> FALSE, parses |-> FALSE, obj |-> [error |-> "x"]],
     [exists |-> TRUE, parses |-> FALSE, obj |-> [error |-> "x"]],
     [exists |-> TRUE, parses |-> TRUE, obj |-> [access_token |-> FileToken]]}
    \cup {[exists |-> TRUE, parses |-> TRUE,
           obj |-> TokenObj(FileToken, FileRefresh, 0, e)] : e \in {3600, SafetyMargin + 2}}

\* responses of the OAuth endpoint to the n-th token request at time now
TokenResponses(n, t) ==
    {TokenObj(SrvToken(n), SrvRefresh(n), t, e) : e \in ExpiresIns}
    \cup {[error |-> "invalid_grant"]}

\* exceptions of opener.open / json.loads
OpenErrors == {"URLError", "ValueError"}

\* paths and bodies the callers pass
Commands == {<<"vehicles">>}
Datas == {None, EmptyDict, << <<"on", "true">>, <<"percent", "90">> >>}
\* names the callers pass to Vehicle.data_request and Vehicle.command
DataNames == {"charge_state"}
CommandNames == {"charge_start"}

VARIABLES
    now,            \* wall clock, seconds
    fs,             \* content of the token file path
    issued,         \* number of tokens the OAuth endpoint has handed out
    life,           \* "unborn", "constructing", "constructed", "aborted"
    tokens_file,    \* Connection.tokens_file
    access_token,   \* Connection.access_token
    refresh_token,  \* Connection.refresh_token
    expiration,     \* Connection.expiration
    head,           \* Connection.head
    oauth,          \* Connection.oauth
    vehicles,       \* Connection.vehicles
    warned,         \* warnings.warn was called by the constructor
    frame,          \* per thread: the call in progress
    sent            \* per thread: requests handed to opener.open in this call

conn == <<life, tokens_file, access_token, refresh_token, expiration, head,
          oauth, vehicles, warned>>
env == <<now, fs, issued>>
vars == <<now, fs, issued, life, tokens_file, access_token, refresh_token,
          expiration, head, oauth, vehicles, warned, frame, sent>>

\* ------------------------------------------------------------ pure helpers
\* post line 103: now > self.expiration (float('inf') compares above any int)
ExpiredInverted(n, e) == e # Inf /\ n < e
ExpiredAtBoundary(n, e) == e # Inf /\ n >= e
Expired(n, e) == e # Inf /\ n > e

\* post line 106 / _update_tokens line 128
ExpiryNoMargin(tokens) == tokens.created_at + tokens.expires_in
ExpiryClamped(tokens) ==
    IF tokens.expires_in < SafetyMargin
    THEN tokens.created_at + tokens.expires_in
    ELSE tokens.created_at + tokens.expires_in - SafetyMargin
Expiry(tokens) == tokens.created_at + tokens.expires_in - SafetyMargin

\* __init__ line 85: self.expiration = 0 # force refresh
ForceRefresh == 0

\* _sethead default argument, line 114
DefaultExpirationZero == ForceRefresh
DefaultExpiration == Inf

\* "Bearer %s" % access_token, line 118
Bearer(tok) == <<"Bearer", tok>>

\* _sethead line 118: the new value of self.head
AuthHeaderStale(tok) == head
AuthHeader(tok) == ("Authorization" :> Bearer(tok))

\* urlencode of a dict: k1=v1&k2=v2 in insertion order; '' for {}
RECURSIVE urlencode(_)
urlencode(d) ==
    IF Len(d) = 0 THEN << >>
    ELSE <<d[1][1], "=", d[1][2]>>
         \o (IF Len(d) = 1 THEN << >> ELSE <<"&">> \o urlencode(Tail(d)))

\* __open lines 155-161: urlencode(None) raises TypeError in both branches
\* and the request keeps data = None; any dict, {} included, sets req.data
ReqDataFalsy(data) == IF Truthy(data) THEN urlencode(data) ELSE None
ReqData(data) == IF data = None THEN None ELSE urlencode(data)

\* Request.get_method: POST when req.data is not None
get_method(reqdata) == IF reqdata = None THEN "GET" ELSE "POST"

\* _user_agent lines 109-112
UserAgent(h) ==
    IF "User-Agent" \in DOMAIN h THEN h
    ELSE h @@ ("User-Agent" :> <<"teslajson.py ", version>>)

\* Request(baseurl + url, headers) with its data, lines 154-161
Request(url, headers, data) ==
    [url |-> <<baseurl>> \o url, headers |-> headers,
     data |-> ReqData(data), method |-> get_method(ReqData(data))]

\* __init__ lines 79-84
PasswordGrant(email, password) ==
    << <<"grant_type", "password">>, <<"client_id", client_id>>,
       <<"client_secret", client_secret>>, <<"email", email>>,
       <<"password", password>> >>

\* _refresh_token lines 136-140 (the method has no caller in the module)
RefreshGrant(rt) ==
    << <<"grant_type", "refresh_token">>, <<"client_id", client_id>>,
       <<"client_secret", client_secret>>, <<"refresh_token", rt>> >>

\* a frame: the arguments and locals of post, and of the Vehicle method
\* that called it (vehicle: index in self.vehicles, 0 when the caller used
\* the Connection directly; sub: the command the Vehicle method was given;
\* wrap: "data" when Vehicle.data takes result['response']; out: the value
\* handed back to the caller)
IdleFrame ==
    [pc |-> "idle", op |-> "none", command |-> << >>, data |-> None,
     now |-> 0, exp |-> 0, auth |-> [error |-> "none"], ret |-> [error |-> "none"],
     err |-> "none", vehicle |-> 0, sub |-> << >>, wrap |-> "none",
     out |-> [error |-> "none"]]

AllIdle == \A t \in Threads : frame[t].pc = "idle"

Init ==
    /\ now = 1
    /\ fs \in FileStates
    /\ issued = 0
    /\ life = "unborn"
    /\ tokens_file = EmptyStr
    /\ access_token = EmptyStr
    /\ refresh_token = None
    /\ expiration = ForceRefresh
    /\ head = EmptyDict
    /\ oauth = Unset
    /\ vehicles = << >>
    /\ warned = FALSE
    /\ frame = [t \in Threads |-> IdleFrame]
    /\ sent = [t \in Threads |-> << >>]

\* ------------------------------------------------- Connection.__init__
\* lines 86-89, 123-128: what open() / _update_tokens(stream) raise
LoadRaises(f) ==
    IF ~f.exists THEN "IOError"
    ELSE IF ~f.parses THEN "ValueError"
    ELSE IF {"access_token", "refresh_token", "created_at", "expires_in"}
            \subseteq DOMAIN f.obj THEN "none"
    ELSE "KeyError"

\* line 90: except IOError
CaughtNothing(exc) == FALSE
Caught(exc) == exc = "IOError"

\* Vehicle.__init__ lines 188-194
Vehicle(v) == [dict |-> v, connection |-> "self"]

\* line 94: [Vehicle(v, self) for v in self.get('vehicles')['response']]
RECURSIVE Reverse(_)
Reverse(l) == IF Len(l) = 0 THEN << >> ELSE Append(Reverse(Tail(l)), Head(l))
BuildVehiclesReversed(l) == [i \in 1..Len(l) |-> Vehicle(Reverse(l)[i])]
BuildVehicles(l) == [i \in 1..Len(l) |-> Vehicle(l[i])]

\* lines 64-92 of a new object, up to the call of self.get('vehicles') on
\* line 94
Construct(t, p_access_token, p_tokens_file, email, password) ==
    /\ AllIdle
    /\ life \in {"unborn", "constructed", "aborted"}
    /\ tokens_file' = p_tokens_file
    /\ vehicles' = << >>
    /\ sent' = [sent EXCEPT ![t] = << >>]
    /\ UNCHANGED env
    /\ LET start == [IdleFrame EXCEPT !.pc = "check", !.op = "init",
                                      !.command = <<"vehicles">>, !.data = None]
           exc == LoadRaises(fs)
       IN IF Truthy(p_access_token)
          THEN \* lines 76-77
               /\ access_token' = p_access_token
               /\ refresh_token' = None
               /\ expiration' = DefaultExpiration
               /\ head' = AuthHeader(p_access_token)
               /\ oauth' = Unset
               /\ warned' = FALSE
               /\ life' = "constructing"
               /\ frame' = [frame EXCEPT ![t] = start]
          ELSE /\ oauth' = PasswordGrant(email, password)
               /\ IF ~Truthy(p_tokens_file)
                  THEN \* lines 79-86
                       /\ access_token' = p_access_token
                       /\ refresh_token' = None
                       /\ expiration' = ForceRefresh
                       /\ head' = EmptyDict
                       /\ warned' = FALSE
                       /\ life' = "constructing"
                       /\ frame' = [frame EXCEPT ![t] = start]
                  ELSE IF exc = "none"
                  THEN \* lines 88-89 and _update_tokens lines 123-130
                       /\ access_token' = fs.obj.access_token
                       /\ refresh_token' = fs.obj.refresh_token
                       /\ expiration' = Expiry(fs.obj)
                       /\ head' = AuthHeader(fs.obj.access_token)
                       /\ warned' = FALSE
                       /\ life' = "constructing"
                       /\ frame' = [frame EXCEPT ![t] = start]
                  ELSE \* open(), json.load or a missing key raised
                       /\ access_token' =
                              IF exc = "KeyError" /\ "access_token" \in DOMAIN fs.obj
                              THEN fs.obj.access_token ELSE p_access_token
                       /\ refresh_token' = None
                       /\ expiration' = ForceRefresh
                       /\ head' = EmptyDict
                       /\ IF Caught(exc)
                          THEN \* lines 90-92
                               /\ warned' = TRUE
                               /\ life' = "constructing"
                               /\ frame' = [frame EXCEPT ![t] = start]
                          ELSE /\ warned' = FALSE
                               /\ life' = "aborted"
                               /\ frame' = [frame EXCEPT ![t] =
                                      [start EXCEPT !.pc = "failed", !.err = exc]]

\* ---------------------------------------------- Connection.get / post
\* line 100: entry of post(command, data), from the caller or from the
\* method wrap of vehicle v that was given sub
Enter(t, command, data, v, sub, wrap) ==
    /\ frame[t].pc = "idle"
    /\ life = "constructed"
    /\ frame' = [frame EXCEPT ![t] =
           [IdleFrame EXCEPT !.pc = "check", !.op = "call",
                             !.command = command, !.data = data,
                             !.vehicle = v, !.sub = sub, !.wrap = wrap]]
    /\ sent' = [sent EXCEPT ![t] = << >>]
    /\ UNCHANGED <<env, conn>>

post(t, command, data) == Enter(t, command, data, 0, << >>, "none")

\* lines 96-98
get(t, command) == post(t, command, None)

\* ------------------------------------------------------------- Vehicle
\* lines 215, 219: 'vehicles/%i/%s' % (self['id'], command)
VehiclePathByIndex(v, command) == <<"vehicles", v>> \o command
VehiclePath(v, command) == <<"vehicles", vehicles[v].dict.id>> \o command

\* lines 217-219
Vehicle_post(t, v, command, data) ==
    /\ v \in DOMAIN vehicles
    /\ Enter(t, VehiclePath(v, command), data, v, command, "none")

\* lines 213-215
Vehicle_get(t, v, command) ==
    /\ v \in DOMAIN vehicles
    /\ Enter(t, VehiclePath(v, command), None, v, command, "none")

\* lines 196-199: self.get(name), then result['response']
Vehicle_data(t, v, name) ==
    /\ v \in DOMAIN vehicles
    /\ Enter(t, VehiclePath(v, name), None, v, name, "data")

\* lines 201-203
Vehicle_data_request(t, v, name) == Vehicle_data(t, v, <<"data_request", name>>)

\* lines 205-207: self.post('wake_up') with the default data={}
Vehicle_wake_up(t, v) == Vehicle_post(t, v, <<"wake_up">>, EmptyDict)

\* lines 209-211
Vehicle_command(t, v, name, data) == Vehicle_post(t, v, <<"command", name>>, data)

\* an exception leaves post; out of __init__ it discards the object
Raise(t, exc) ==
    /\ frame' = [frame EXCEPT ![t].pc = "failed", ![t].err = exc]
    /\ life' = IF frame[t].op = "init" THEN "aborted" ELSE life

\* lines 102-103
PostCheck(t) ==
    /\ frame[t].pc = "check"
    /\ frame' = [frame EXCEPT ![t].now = now,
                              ![t].exp = expiration,
                              ![t].pc = IF Expired(now, expiration)
                                        THEN "token" ELSE "api"]
    /\ UNCHANGED <<env, conn, sent>>

\* line 104: the body of the token request is self.oauth
TokenBody == oauth

\* line 104 up to opener.open: __open("/oauth/token", data=self.oauth)
OauthOpen(t) ==
    /\ frame[t].pc = "token"
    /\ IF TokenBody = Unset
       THEN /\ Raise(t, "AttributeError")
            /\ UNCHANGED <<head, sent>>
       ELSE /\ head' = UserAgent(head)
            /\ sent' = [sent EXCEPT ![t] =
                   Append(sent[t], Request(oauth_token_url, EmptyDict, TokenBody))]
            /\ frame' = [frame EXCEPT ![t].pc = "token_wait"]
            /\ life' = life
    /\ UNCHANGED <<env, tokens_file, access_token, refresh_token, expiration,
                   oauth, vehicles, warned>>

\* line 104, lines 176-178: opener.open or json.loads raised
OauthFailSwallowed(t, exc) ==
    /\ frame' = [frame EXCEPT ![t].pc = "api"]
    /\ life' = life
OauthFail(t, exc) == Raise(t, exc)

\* line 104, lines 176-178: the token request returns or raises
OauthResponse(t) ==
    /\ frame[t].pc = "token_wait"
    /\ \/ \E exc \in OpenErrors :
            /\ OauthFail(t, exc)
            /\ issued' = issued
       \/ /\ issued < MaxIssued
          /\ \E r \in TokenResponses(issued + 1, now) :
                /\ frame' = [frame EXCEPT ![t].pc = "sethead", ![t].auth = r]
                /\ issued' = IF "access_token" \in DOMAIN r THEN issued + 1 ELSE issued
          /\ life' = life
    /\ UNCHANGED <<now, fs, tokens_file, access_token, refresh_token, expiration,
                   head, oauth, vehicles, warned, sent>>

\* lines 105-106 with _sethead lines 114-118
Sethead(t) ==
    LET auth == frame[t].auth IN
    /\ frame[t].pc = "sethead"
    /\ IF {"access_token", "created_at", "expires_in"} \subseteq DOMAIN auth
       THEN /\ access_token' = auth.access_token
            /\ expiration' = Expiry(auth)
            /\ head' = AuthHeader(auth.access_token)
            /\ frame' = [frame EXCEPT ![t].pc = "api"]
            /\ life' = life
       ELSE /\ Raise(t, "KeyError")
            /\ UNCHANGED <<access_token, expiration, head>>
    /\ UNCHANGED <<env, tokens_file, refresh_token, oauth, vehicles, warned, sent>>

\* lines 105-106 and 116-118 one statement at a time, as another thread
\* of the caller's sees them: the arguments are evaluated on lines 105-106
\* (a missing field raises there), then come the three assignments
SetheadToken(t) ==
    LET auth == frame[t].auth IN
    /\ frame[t].pc = "sethead"
    /\ IF {"access_token", "created_at", "expires_in"} \subseteq DOMAIN auth
       THEN /\ access_token' = auth.access_token
            /\ frame' = [frame EXCEPT ![t].pc = "sethead_exp"]
            /\ life' = life
       ELSE /\ Raise(t, "KeyError")
            /\ UNCHANGED access_token
    /\ UNCHANGED <<env, tokens_file, refresh_token, expiration, head, oauth,
                   vehicles, warned, sent>>

SetheadExpiration(t) ==
    /\ frame[t].pc = "sethead_exp"
    /\ expiration' = Expiry(frame[t].auth)
    /\ frame' = [frame EXCEPT ![t].pc = "sethead_head"]
    /\ UNCHANGED <<env, life, tokens_file, access_token, refresh_token, head,
                   oauth, vehicles, warned, sent>>

SetheadHead(t) ==
    /\ frame[t].pc = "sethead_head"
    /\ head' = AuthHeader(frame[t].auth.access_token)
    /\ frame' = [frame EXCEPT ![t].pc = "api"]
    /\ UNCHANGED <<env, life, tokens_file, access_token, refresh_token,
                   expiration, oauth, vehicles, warned, sent>>

\* line 107 up to opener.open: __open(api + command, headers=self.head, data)
ApiOpen(t) ==
    /\ frame[t].pc = "api"
    /\ head' = UserAgent(head)
    /\ sent' = [sent EXCEPT ![t] =
           Append(sent[t], Request(<<api>> \o frame[t].command,
                                   UserAgent(head), frame[t].data))]
    /\ frame' = [frame EXCEPT ![t].pc = "api_wait"]
    /\ UNCHANGED <<env, life, tokens_file, access_token, refresh_token,
                   expiration, oauth, vehicles, warned>>

\* line 107, lines 176-178: opener.open or json.loads raised
ApiFailSwallowed(t, exc) ==
    /\ frame' = [frame EXCEPT ![t].pc = "done"]
    /\ life' = IF frame[t].op = "init" THEN "constructed" ELSE life
    /\ vehicles' = vehicles
    /\ UNCHANGED <<access_token, expiration, head>>
ApiFailRetried(t, exc) ==
    /\ IF Len(sent[t]) < 3
       THEN frame' = [frame EXCEPT ![t].pc = "api"] /\ life' = life
       ELSE Raise(t, exc)
    /\ UNCHANGED <<vehicles, access_token, expiration, head>>
ApiFailDropsVehicles(t, exc) ==
    /\ Raise(t, exc)
    /\ vehicles' = << >>
    /\ UNCHANGED <<access_token, expiration, head>>
ApiFailRolledBack(t, exc) ==
    /\ Raise(t, exc)
    /\ vehicles' = vehicles
    /\ expiration' = frame[t].exp
    /\ UNCHANGED <<access_token, head>>
ApiFail(t, exc) ==
    /\ Raise(t, exc)
    /\ vehicles' = vehicles
    /\ UNCHANGED <<access_token, expiration, head>>

\* Vehicle.data line 199: result['response']; every other caller gets the
\* decoded JSON as it is
Unwrap(wrap, r) == IF wrap = "data" THEN r.response ELSE r

\* line 107, lines 176-178: the API request returns or raises; in __init__
\* line 94 then builds the vehicle list from the 'response' field
ApiResponse(t) ==
    /\ frame[t].pc = "api_wait"
    /\ \/ \E exc \in OpenErrors : ApiFail(t, exc)
       \/ /\ frame[t].op = "init"
          /\ \E l \in VehicleLists :
                /\ frame' = [frame EXCEPT ![t].pc = "done", ![t].ret = [response |-> l]]
                /\ vehicles' = BuildVehicles(l)
                /\ life' = "constructed"
          /\ UNCHANGED <<access_token, expiration, head>>
       \/ \* the decoded JSON has no 'response' field
          /\ frame[t].op = "init"
          /\ Raise(t, "KeyError")
          /\ UNCHANGED <<vehicles, access_token, expiration, head>>
       \/ /\ frame[t].op = "call"
          /\ \E r \in ApiResults :
                IF frame[t].wrap = "data" /\ "response" \notin DOMAIN r
                THEN frame' = [frame EXCEPT ![t].pc = "failed", ![t].ret = r,
                                            ![t].err = "KeyError"]
                ELSE frame' = [frame EXCEPT ![t].pc = "done", ![t].ret = r,
                                            ![t].out = Unwrap(frame[t].wrap, r)]
          /\ UNCHANGED <<life, vehicles, access_token, expiration, head>>
    /\ UNCHANGED <<env, tokens_file, refresh_token, oauth, warned, sent>>

\* the call returns to its caller (or the exception reaches it)
Return(t) ==
    /\ frame[t].pc \in {"done", "failed"}
    /\ frame' = [frame EXCEPT ![t] = IdleFrame]
    /\ sent' = [sent EXCEPT ![t] = << >>]
    /\ UNCHANGED <<env, conn>>

\* time passes; the clock is read on line 102 and by the OAuth endpoint
\* only, so a second that passes between two other statements of a call
\* is the same as one that passes during the next network wait
Tick ==
    /\ now < MaxNow
    /\ \A t \in Threads : frame[t].pc \in {"idle", "check", "token_wait", "api_wait"}
    /\ now' = now + 1
    /\ UNCHANGED <<fs, issued, conn, frame, sent>>

Next ==
    \/ \E t \in MainThread, a \in {EmptyStr, StaticToken},
          f \in {EmptyStr, TokensPath}, e \in Emails, p \in Passwords :
          Construct(t, a, f, e, p)
    \/ \E t \in MainThread, cmd \in Commands : get(t, cmd)
    \/ \E t \in MainThread, cmd \in Commands, d \in Datas : post(t, cmd, d)
    \/ \E t \in MainThread, v \in DOMAIN vehicles, n \in DataNames :
          Vehicle_get(t, v, <<n>>)
    \/ \E t \in MainThread, v \in DOMAIN vehicles, n \in CommandNames :
          Vehicle_post(t, v, <<n>>, None)
    \/ \E t \in MainThread, v \in DOMAIN vehicles : Vehicle_data(t, v, <<"data">>)
    \/ \E t \in MainThread, v \in DOMAIN vehicles, n \in DataNames :
          Vehicle_data_request(t, v, n)
    \/ \E t \in MainThread, v \in DOMAIN vehicles : Vehicle_wake_up(t, v)
    \/ \E t \in MainThread, v \in DOMAIN vehicles, n \in CommandNames :
          Vehicle_command(t, v, n, EmptyDict)
    \/ \E t \in Threads : PostCheck(t)
    \/ \E t \in Threads : OauthOpen(t)
    \/ \E t \in Threads : OauthResponse(t)
    \/ \E t \in Threads : Sethead(t)
    \/ \E t \in Threads : ApiOpen(t)
    \/ \E t \in Threads : ApiResponse(t)
    \/ \E t \in Threads : Return(t)
    \/ Tick

Spec == Init /\ [][Next]_vars

\* One client used by two threads of the caller at once: the class holds
\* no lock, so the statements of their calls interleave (further threads
\* add interleavings of the same kind). The client is built from a token
\* file whose token is still valid for a moment, so that the constructor's
\* own request need not refresh.
Callers == MainThread \cup {2}

ConcInit ==
    /\ Init
    /\ fs = [exists |-> TRUE, parses |-> TRUE,
             obj |-> TokenObj(FileToken, FileRefresh, 0, SafetyMargin + 2)]

NextConc ==
    \/ \E t \in MainThread, e \in Emails, p \in Passwords :
          Construct(t, EmptyStr, TokensPath, e, p)
    \/ \E t \in Callers, cmd \in Commands : get(t, cmd)
    \/ \E t \in Threads : PostCheck(t)
    \/ \E t \in Threads : OauthOpen(t)
    \/ \E t \in Threads : OauthResponse(t)
    \/ \E t \in Threads : SetheadToken(t)
    \/ \E t \in Threads : SetheadExpiration(t)
    \/ \E t \in Threads : SetheadHead(t)
    \/ \E t \in Threads : ApiOpen(t)
    \/ \E t \in Threads : ApiResponse(t)
    \/ \E t \in Threads : Return(t)
    \/ Tick

SpecConc == ConcInit /\ [][NextConc]_vars

\* lines 100-107 and 149-178 are straight-line code: a thread that is
\* inside a call keeps running, and opener.open returns or raises
CallStep(t) ==
    \/ PostCheck(t) \/ OauthOpen(t) \/ OauthResponse(t)
    \/ Sethead(t) \/ ApiOpen(t) \/ ApiResponse(t)

LiveSpec == Spec /\ \A t \in Threads : WF_vars(CallStep(t))

\* ------------------------------------------------------------ observations
IsTokenReq(r) == Len(r.url) = 2 /\ r.url[2] = "/oauth/token"
TokenReqs(t) == {i \in 1..Len(sent[t]) : IsTokenReq(sent[t][i])}
ApiReqs(t) == {i \in 1..Len(sent[t]) : ~IsTokenReq(sent[t][i])}
Authz(h) == IF "Authorization" \in DOMAIN h THEN h["Authorization"] ELSE None
InCall(t) == frame[t].pc \in {"token", "token_wait", "sethead", "api", "api_wait",
                              "done", "failed"}
TokenStateUnchanged ==
    /\ access_token' = access_token
    /\ expiration' = expiration
    /\ Authz(head') = Authz(head)

\* C1: a call that finds the stored expiration in the future issues no
\* request to /oauth/token, leaves access_token, expiration and the
\* Authorization header as they are, and sends the API request with the
\* cached token.
C1_FutureExpiryUsesCachedToken ==
    [][\A t \in Threads :
          (InCall(t)' /\ frame'[t].exp > frame'[t].now) =>
             /\ frame'[t].pc \in {"api", "api_wait", "done", "failed"}
             /\ TokenReqs(t)' = {}
             /\ TokenStateUnchanged
             /\ frame'[t].pc # "api" => Len(sent'[t]) = 1
             /\ \A i \in 1..Len(sent'[t]) :
                   Authz(sent'[t][i].headers) = <<"Bearer", access_token>>]_vars

C1_Witness ==
    \E t \in Threads :
       /\ frame[t].pc = "done" /\ frame[t].op = "call"
       /\ frame[t].exp > frame[t].now /\ frame[t].exp < Inf
       /\ Len(sent[t]) = 1 /\ access_token = SrvToken(issued)

\* C2: a call that finds the stored expiration in the past performs exactly
\* one token request, and once that request has succeeded the stored
\* expiration is created_at + expires_in - 86400 of its response.
C2_PastExpiryRefreshesOnce ==
    \A t \in Threads :
       (InCall(t) /\ frame[t].exp < frame[t].now) =>
          /\ Cardinality(TokenReqs(t)) <= 1
          /\ frame[t].pc # "token" => Cardinality(TokenReqs(t)) = 1
          /\ frame[t].pc \in {"api", "api_wait", "done"} =>
                expiration = frame[t].auth.created_at + frame[t].auth.expires_in - 86400

C2_Witness ==
    \E t \in Threads :
       /\ frame[t].pc = "done" /\ frame[t].op = "call"
       /\ frame[t].exp < frame[t].now /\ frame[t].exp > 0
       /\ Cardinality(TokenReqs(t)) = 1
       /\ expiration = now + 1

\* only lines 76-77 (a static access_token) leave self.oauth unset
StaticAuth == life \in {"constructing", "constructed"} /\ oauth = Unset

\* C3: with a static access_token no request to /oauth/token is ever
\* issued, whatever calls are made and however much time passes, and the
\* expiration stays at the infinite horizon.
C3_StaticTokenNeverRefreshes ==
    StaticAuth =>
       /\ expiration = Inf
       /\ \A t \in Threads :
             /\ TokenReqs(t) = {}
             /\ frame[t].pc \notin {"token", "token_wait", "sethead"}

C3_Witness ==
    /\ StaticAuth /\ now = MaxNow
    /\ \E t \in Threads : /\ frame[t].pc = "done" /\ frame[t].op = "call"
                          /\ frame[t].now = MaxNow

IsSrvToken(tok) == Len(tok) = 2 /\ tok[1] = "srv"

\* C4: whenever a token request is issued while a refresh_token is known,
\* its body is the refresh grant built from that refresh_token; the
\* password grant is used only when no refresh_token is known.
C4_RefreshGrantWhenRefreshTokenKnown ==
    \A t \in Threads : \A i \in TokenReqs(t) :
       IF Truthy(refresh_token)
       THEN sent[t][i].data = urlencode(RefreshGrant(refresh_token))
       ELSE SubSeq(sent[t][i].data, 1, 3) = <<"grant_type", "=", "password">>

\* C5: with a token file configured, once a token request of a call has
\* succeeded the token file holds the response of that request.
C5_TokenFileRewrittenAfterRefresh ==
    \A t \in Threads :
       (/\ Truthy(tokens_file)
        /\ frame[t].pc \in {"api", "api_wait", "done"}
        /\ TokenReqs(t) # {}) =>
          /\ fs.exists /\ fs.parses
          /\ fs.obj = frame[t].auth

\* C6: a new client constructed from the token file of a client that has
\* refreshed holds the same access_token and refresh_token as that client,
\* and issues no token request while the reloaded expiration is ahead of
\* the clock.
C6_TokenFileRoundTrip ==
    /\ [][\A t \in Threads :
             (/\ life = "constructed" /\ Truthy(tokens_file)
              /\ IsSrvToken(access_token)
              /\ frame[t].pc = "idle" /\ frame'[t].op = "init"
              /\ tokens_file' = TokensPath /\ oauth' # Unset) =>
                /\ life' = "constructing"
                /\ access_token' = access_token
                /\ refresh_token' = refresh_token]_vars
    /\ [](\A t \in Threads :
             (frame[t].op = "init" /\ InCall(t) /\ frame[t].exp > frame[t].now) =>
                TokenReqs(t) = {})

\* a step in which the token request of thread t fails: opener.open or
\* json.loads raises, or the decoded response has no token fields
TokenFailStep(t) ==
    \/ /\ frame[t].pc = "token_wait"
       /\ frame'[t].pc \notin {"token_wait", "sethead"}
    \/ /\ frame[t].pc = "sethead"
       /\ "access_token" \notin DOMAIN frame[t].auth
       /\ frame'[t].pc # "sethead"

\* C7: a failed token request ends the call with that error: no API
\* request is sent in the call, and access_token, expiration and the
\* Authorization header are as they were when the call began.
C7_FailedTokenRequestPropagates ==
    [][\A t \in Threads :
          /\ frame'[t].pc \in {"token", "token_wait", "sethead"} => TokenStateUnchanged
          /\ TokenFailStep(t) =>
                /\ frame'[t].pc = "failed"
                /\ frame'[t].err # "none"
                /\ ApiReqs(t)' = {}
                /\ TokenStateUnchanged
          /\ frame[t].pc = "failed" =>
                /\ frame'[t].pc \in {"failed", "idle"}
                /\ ApiReqs(t)' \subseteq ApiReqs(t)
                /\ TokenStateUnchanged]_vars

C7_Witness ==
    \E t \in Threads :
       /\ frame[t].pc = "failed" /\ frame[t].op = "call"
       /\ frame[t].err = "URLError"
       /\ Len(sent[t]) = 1 /\ IsTokenReq(sent[t][1])
       /\ IsSrvToken(access_token)

\* a constructor call that was given a token file and no static token
FileGiven(t) == frame[t].op = "init" /\ Truthy(tokens_file) /\ oauth # Unset
FileUnparsable ==
    /\ fs.exists
    /\ \/ ~fs.parses
       \/ ~({"access_token", "refresh_token", "created_at", "expires_in"}
               \subseteq DOMAIN fs.obj)
\* the constructor did not raise on the file, warned, kept expiration 0 and
\* its first request is a password-grant token request
FallsBackToPassword(t) ==
    /\ ~(frame[t].pc = "failed" /\ sent[t] = << >>)
    /\ warned
    /\ frame[t].pc = "check" => expiration = 0
    /\ frame[t].pc \notin {"check", "token"} =>
          /\ Len(sent[t]) >= 1
          /\ IsTokenReq(sent[t][1])
          /\ SubSeq(sent[t][1].data, 1, 3) = <<"grant_type", "=", "password">>

\* C8 as stated: a token file that is missing, cannot be opened or cannot be
\* parsed into the token fields never makes construction raise.
C8_BadTokenFileNeverRaises ==
    \A t \in Threads :
       (FileGiven(t) /\ (~fs.exists \/ FileUnparsable)) => FallsBackToPassword(t)

\* C8 amended: a token file that cannot be opened only warns and the first
\* request is a password-grant token request; a file that opens but does
\* not parse into the token fields makes construction raise.
C8_UnopenableFileWarnsUnparsableRaises ==
    \A t \in Threads :
       FileGiven(t) =>
          /\ ~fs.exists => FallsBackToPassword(t)
          /\ FileUnparsable =>
                /\ frame[t].pc = "failed" /\ life = "aborted"
                /\ frame[t].err \in {"ValueError", "KeyError"}
                /\ sent[t] = << >> /\ ~warned

C8_Witness ==
    \E t \in Threads :
       /\ FileGiven(t) /\ ~fs.exists /\ warned
       /\ frame[t].pc = "done" /\ life = "constructed"
       /\ Len(sent[t]) = 2 /\ IsSrvToken(access_token)

\* C9: a constructed client exists only after its token request (if any)
\* and its vehicle-list request succeeded, with the vehicle collection built
\* from that response; every failure aborts the construction.
C9_NoPartiallyConstructedClient ==
    /\ [](\A t \in Threads :
             frame[t].op = "init" =>
                /\ frame[t].pc = "failed" =>
                      /\ life = "aborted" /\ frame[t].err # "none"
                      /\ vehicles = << >>
                /\ frame[t].pc = "done" <=> life = "constructed"
                /\ frame[t].pc = "done" =>
                      /\ "response" \in DOMAIN frame[t].ret
                      /\ Len(sent[t]) >= 1
                      /\ vehicles = [i \in 1..Len(frame[t].ret.response) |->
                            [dict |-> frame[t].ret.response[i], connection |-> "self"]])
    /\ [][(life' = "constructed" /\ life # "constructed") =>
             \E t \in Threads : /\ frame[t].pc = "api_wait" /\ frame[t].op = "init"
                                /\ frame'[t].pc = "done"]_vars

C9_Witness ==
    /\ life = "constructed" /\ Len(vehicles) = 2
    /\ \E t \in Threads : /\ frame[t].op = "init" /\ frame[t].pc = "done"
                          /\ Len(sent[t]) = 2

LastReq(t) == sent[t][Len(sent[t])]
ApiSent(t) == frame[t].pc \in {"api_wait", "done", "failed"} /\ ApiReqs(t) # {}
EncodedBody == <<"on", "=", "true", "&", "percent", "=", "90">>

\* C10 as stated: a call with no body or an empty body sends a GET without
\* payload, a call with a present body sends a POST with the form-encoded
\* payload, both to base url + api prefix + path.
C10_EmptyBodyIsGet ==
    \A t \in Threads :
       ApiSent(t) =>
          /\ LastReq(t).url = <<baseurl, api>> \o frame[t].command
          /\ IF frame[t].data \in {None, EmptyDict}
             THEN LastReq(t).method = "GET" /\ LastReq(t).data = None
             ELSE LastReq(t).method = "POST" /\ LastReq(t).data = EncodedBody

\* C10 amended: only a call without a body (None, as get passes) sends a
\* GET without payload; a call with a body dict, the empty dict included,
\* sends a POST with the form-encoded payload (empty for the empty dict).
C10_NoneIsGetDictIsPost ==
    \A t \in Threads :
       ApiSent(t) =>
          /\ LastReq(t).url = <<baseurl, api>> \o frame[t].command
          /\ IF frame[t].data = None
             THEN LastReq(t).method = "GET" /\ LastReq(t).data = None
             ELSE /\ LastReq(t).method = "POST"
                  /\ LastReq(t).data =
                        IF frame[t].data = EmptyDict THEN << >> ELSE EncodedBody

C10_Witness ==
    \E t \in Threads :
       /\ frame[t].pc = "done" /\ frame[t].op = "call"
       /\ frame[t].data = EmptyDict
       /\ LastReq(t).method = "POST" /\ LastReq(t).data = << >>

\* C11: a Vehicle method on the vehicle with id N sends its request through
\* the client, with the client's token, to vehicles/N/<subpath>;
\* command(name, {}) is a POST to vehicles/N/command/<name> with an empty
\* form body and hands back the decoded JSON as it is.
C11_VehicleRequestsGoThroughClient ==
    \A t \in Threads :
       (frame[t].vehicle # 0 /\ ApiSent(t)) =>
          /\ LastReq(t).url =
                <<baseurl, api, "vehicles", vehicles[frame[t].vehicle].dict.id>>
                   \o frame[t].sub
          /\ Authz(LastReq(t).headers) = <<"Bearer", access_token>>
          /\ (frame[t].sub = <<"command", "charge_start">> /\ frame[t].data = EmptyDict) =>
                /\ LastReq(t).method = "POST"
                /\ LastReq(t).data = << >>
                /\ frame[t].pc = "done" =>
                      frame[t].out = frame[t].ret /\ frame[t].out \in ApiResults

C11_Witness ==
    \E t \in Threads :
       /\ frame[t].pc = "done" /\ frame[t].vehicle = 2
       /\ frame[t].sub = <<"command", "charge_start">>
       /\ "result" \in DOMAIN frame[t].out /\ frame[t].out.result = FALSE
       /\ LastReq(t).url = <<baseurl, api, "vehicles", 7, "command", "charge_start">>

\* C12: after a successful construction the vehicle collection has one
\* record per element of the vehicle-list response, in the same order and
\* with the same ids; one vehicle {id: 42} gives length 1 and id 42.
C12_VehiclesMirrorTheResponse ==
    \A t \in Threads :
       (frame[t].op = "init" /\ frame[t].pc = "done") =>
          /\ Len(vehicles) = Len(frame[t].ret.response)
          /\ \A i \in 1..Len(vehicles) :
                vehicles[i].dict.id = frame[t].ret.response[i].id
          /\ frame[t].ret.response = <<[id |-> 42, vin |-> "X"]>> =>
                Len(vehicles) = 1 /\ vehicles[1].dict.id = 42

C12_Witness ==
    \E t \in Threads :
       /\ frame[t].op = "init" /\ frame[t].pc = "done"
       /\ Len(frame[t].ret.response) = 2
       /\ vehicles[1].dict.id = 42 /\ vehicles[2].dict.id = 7

\* the step that hands the API request of thread t to opener.open
SendStep(t) == frame[t].pc = "api" /\ frame'[t].pc = "api_wait"

\* C13 as stated: no API request is sent while the stored expiration is at
\* or before the time the call read, unless the call made a token request
\* first; the boundary expiration = time included.
C13_NeverSentAtOrPastExpiry ==
    [][\A t \in Threads :
          (SendStep(t) /\ expiration <= frame[t].now) => TokenReqs(t) # {}]_vars

\* C13 amended: no API request is sent while the stored expiration is
\* before the time the call read, unless the call made a token request
\* first; when the two are equal the request is sent with the cached token
\* and without a token request.
C13_NeverSentPastExpiry ==
    [][\A t \in Threads :
          SendStep(t) =>
             /\ expiration < frame[t].now => TokenReqs(t) # {}
             /\ frame[t].exp = frame[t].now =>
                   TokenReqs(t) = {} /\ expiration = frame[t].exp]_vars

C13_Witness ==
    \E t \in Threads :
       /\ frame[t].pc = "done" /\ frame[t].op = "call"
       /\ frame[t].exp = frame[t].now /\ expiration = frame[t].now
       /\ Len(sent[t]) = 1 /\ ~IsTokenReq(sent[t][1])

\* thread t is between its reading of a stale expiration and the end of
\* its store of the new token state
InRefresh(t) ==
    frame[t].pc \in {"token", "token_wait", "sethead", "sethead_exp", "sethead_head"}

\* thread t has stored all of its token response
Stored(t) == frame[t].pc \in {"api", "api_wait", "done"} /\ TokenReqs(t) # {}

\* C14 as stated: with several callers on one expired client, check,
\* refresh and store are one critical section: no two callers are in it
\* together, and when a caller finishes its store the access_token and
\* the expiration are both those of its response.
C14_RefreshIsAtomic ==
    /\ [](\A t1, t2 \in Threads : t1 # t2 => ~(InRefresh(t1) /\ InRefresh(t2)))
    /\ [][\A t \in Threads :
             (frame[t].pc = "sethead_head" /\ frame'[t].pc = "api") =>
                /\ access_token' = frame[t].auth.access_token
                /\ expiration' = Expiry(frame[t].auth)]_vars

\* C14 amended: nothing serializes the callers. Every caller that reads
\* an expiration before its clock reading sends its own token request,
\* whatever the others are doing, at most one per call, and a caller
\* sends one only after so reading; each caller then stores its own
\* response field by field.
C14_EveryStaleCallerRefreshes ==
    [][\A t \in Threads :
          /\ Cardinality(TokenReqs(t)') <= 1
          /\ (/\ frame[t].pc = "check" /\ frame'[t].pc # "check"
              /\ expiration < now) => frame'[t].pc = "token"
          /\ (frame[t].pc = "token" /\ frame'[t].pc = "token_wait") =>
                /\ frame[t].exp < frame[t].now
                /\ TokenReqs(t)' # {}
          /\ (frame[t].pc = "sethead" /\ frame'[t].pc = "sethead_exp") =>
                access_token' = frame[t].auth.access_token
          /\ (frame[t].pc = "sethead_exp" /\ frame'[t].pc = "sethead_head") =>
                expiration' = frame[t].auth.created_at + frame[t].auth.expires_in - 86400
          /\ (frame[t].pc = "sethead_head" /\ frame'[t].pc = "api") =>
                Authz(head') = <<"Bearer", frame[t].auth.access_token>>]_vars

\* two callers refreshed for the same stale expiration, and the stored
\* access_token and expiration are of different responses
C14_Witness ==
    \E t1, t2 \in Threads :
       /\ t1 # t2 /\ Stored(t1) /\ Stored(t2)
       /\ frame[t1].op = "call" /\ frame[t2].op = "call"
       /\ frame[t1].exp = frame[t2].exp
       /\ access_token = frame[t1].auth.access_token
       /\ expiration = Expiry(frame[t2].auth)
       /\ expiration # Expiry(frame[t1].auth)

\* the phases of one call, in the order of lines 102-107
Phase(pc) ==
    CASE pc = "idle" -> 0
      [] pc \in {"check", "token", "token_wait", "sethead"} -> 1  \* NeedToken
      [] pc = "api" -> 2                                          \* TokenValid
      [] pc = "api_wait" -> 3                                     \* Sent
      [] pc \in {"done", "failed"} -> 4                           \* Decoded, Failed

\* the statements of one call, in the order of lines 102-107
Position(pc) ==
    CASE pc = "idle" -> 0
      [] pc = "check" -> 1
      [] pc = "token" -> 2
      [] pc = "token_wait" -> 3
      [] pc = "sethead" -> 4
      [] pc = "api" -> 5
      [] pc = "api_wait" -> 6
      [] pc \in {"done", "failed"} -> 7

\* C15: a call only moves forward through NeedToken, TokenValid, Sent to
\* Decoded or Failed: it never goes back or retries, it makes at most one
\* token request and at most one API request, a failed send or decode
\* ends it at once, and every call that starts ends in Decoded or Failed.
C15_CallRunsOnceToTheEnd ==
    /\ [][\A t \in Threads :
             /\ Cardinality(TokenReqs(t)') <= 1
             /\ Cardinality(ApiReqs(t)') <= 1
             /\ frame'[t].pc # frame[t].pc =>
                   /\ frame[t].pc \in {"done", "failed"} => frame'[t].pc = "idle"
                   /\ frame[t].pc \notin {"done", "failed"} =>
                         /\ Position(frame'[t].pc) > Position(frame[t].pc)
                         /\ Phase(frame'[t].pc) >= Phase(frame[t].pc)
                   /\ frame'[t].pc = "failed" => sent'[t] = sent[t]
                   /\ (frame'[t].pc = "done" /\ frame'[t].op = "call") =>
                         /\ frame[t].pc = "api_wait"
                         /\ Cardinality(ApiReqs(t)) = 1]_vars
    /\ \A t \in Threads :
          (frame[t].pc = "check") ~> (frame[t].pc \in {"done", "failed"})

C15_Witness ==
    \E t \in Threads :
       /\ frame[t].pc = "failed" /\ frame[t].op = "call"
       /\ frame[t].err = "ValueError"
       /\ Cardinality(TokenReqs(t)) = 1 /\ Cardinality(ApiReqs(t)) = 1

\* the token request of the call of thread t has succeeded and been stored
Refreshed(t) ==
    /\ TokenReqs(t) # {}
    /\ \/ frame[t].pc \in {"api", "api_wait", "done"}
       \/ frame[t].pc = "failed" /\ ApiReqs(t) # {}

\* C16: after a successful token request of a call, access_token,
\* refresh_token and expiration are all those of its response.
C16_WholeTokenStateReplaced ==
    \A t \in Threads :
       Refreshed(t) =>
          /\ access_token = frame[t].auth.access_token
          /\ refresh_token = frame[t].auth.refresh_token
          /\ expiration = frame[t].auth.created_at + frame[t].auth.expires_in - 86400

\* C17: the stored expiration is the literal created_at + expires_in - 86400
\* of the response even when that is already in the past, and a call that
\* finds such an expiration issues a token request again.
C17_ShortLivedTokenRefreshesEveryCall ==
    [][\A t \in Threads :
          /\ Refreshed(t)' =>
                expiration' = frame'[t].auth.created_at + frame'[t].auth.expires_in - 86400
          /\ (/\ frame[t].pc = "check" /\ frame'[t].pc # "check"
              /\ IsSrvToken(access_token) /\ expiration < now) =>
                frame'[t].pc = "token"
          /\ (/\ frame[t].pc = "token" /\ frame'[t].pc # "token"
              /\ IsSrvToken(access_token)) =>
                TokenReqs(t)' # {}]_vars

C17_Witness ==
    \E t \in Threads :
       /\ frame[t].pc = "done" /\ frame[t].op = "call"
       /\ Refreshed(t)
       /\ frame[t].exp < 0 /\ frame[t].auth.access_token = SrvToken(2)
       /\ frame[t].auth.expires_in = 3600
       /\ expiration = frame[t].auth.created_at - 82800 /\ expiration < now

\* C18: every API request carries Authorization: Bearer <cached access
\* token> (and the User-Agent); after a token request of the same call
\* succeeded that token is the one of its response.
C18_ApiRequestsCarryTheCachedToken ==
    \A t \in Threads : \A i \in ApiReqs(t) :
       LET h == sent[t][i].headers IN
       /\ DOMAIN h = {"Authorization", "User-Agent"}
       /\ h["Authorization"] = <<"Bearer", access_token>>
       /\ TokenReqs(t) # {} =>
             h["Authorization"] = <<"Bearer", frame[t].auth.access_token>>

C18_Witness ==
    \E t \in Threads :
       /\ frame[t].pc = "done" /\ frame[t].op = "call"
       /\ Len(sent[t]) = 2 /\ TokenReqs(t) = {1}
       /\ frame[t].auth.access_token = SrvToken(2)
       /\ sent[t][2].headers["Authorization"] = <<"Bearer", SrvToken(2)>>

\* C19: once the client is constructed, no call changes the vehicle
\* collection or any of its records, whether the call succeeds, fails or
\* refreshes the token.
C19_VehiclesAreASnapshot ==
    [][(life = "constructed" /\ life' = "constructed") => vehicles' = vehicles]_vars

C19_Witness ==
    \E t \in Threads :
       /\ life = "constructed" /\ Len(vehicles) = 2
       /\ frame[t].pc = "failed" /\ frame[t].vehicle = 1
       /\ frame[t].sub = <<"wake_up">>
       /\ Refreshed(t)

\* C20: when the token request of a call succeeded and its API request
\* fails, the call ends with the API error and keeps the refreshed token
\* state; the next call finds it and, with the expiration still ahead,
\* goes straight to the API request.
C20_RefreshSurvivesApiFailure ==
    [][\A t \in Threads :
          /\ (/\ frame[t].pc = "api_wait" /\ frame'[t].pc = "failed"
              /\ TokenReqs(t) # {}) =>
                /\ frame'[t].err \in {"URLError", "ValueError", "KeyError"}
                /\ access_token' = frame[t].auth.access_token
                /\ expiration' =
                      frame[t].auth.created_at + frame[t].auth.expires_in - 86400
                /\ Authz(head') = <<"Bearer", frame[t].auth.access_token>>
          /\ (frame[t].pc = "failed" /\ frame'[t].pc = "idle") => TokenStateUnchanged
          /\ (/\ frame[t].pc = "check" /\ frame'[t].pc # "check"
              /\ expiration > now) =>
                frame'[t].pc = "api" /\ TokenStateUnchanged]_vars

C20_Witness ==
    \E t \in Threads :
       /\ frame[t].pc = "failed" /\ frame[t].op = "call"
       /\ Len(sent[t]) = 2 /\ TokenReqs(t) = {1}
       /\ access_token = frame[t].auth.access_token
       /\ expiration > now /\ expiration < Inf
====
